---- MODULE Spec2Model ----
(***************************************************************************)
(* Model of the parallel screenshot orchestrator of src/main.js             *)
(* (getDefaultUserAgent, takeSingleScreenshot, main).                       *)
(*                                                                          *)
(* JavaScript runs every continuation to completion: an action of the model *)
(* is one such continuation, from the completion of an awaited operation to *)
(* the next await.  The awaited operations themselves (the browser engine,  *)
(* the re-encoder, the file system) are external: each may return or throw. *)
(*                                                                          *)
(* Strings that the program takes apart (URLs, device names, file names)    *)
(* are sequences of one-character strings.  Strings it only passes along    *)
(* (user agents) are TLA+ strings.                                          *)
(***************************************************************************)
EXTENDS Integers, Sequences, FiniteSets, TLC

VARIABLES
    config,             \* the parsed config.json: [urlList, deviceSizes]
    phase,              \* where main is suspended
    exitCode,           \* NoExit while the process runs, then Exited(code)
    browser,            \* "null" | "open" | "closed"
    launchCalls,        \* number of calls of chromium.launch
    browserCloseCalls,  \* number of calls of browser.close
    tasks,              \* screenshotTasks: one record per takeSingleScreenshot call
    files,              \* the file names present in dateTimeDir
    results,            \* the array Promise.allSettled resolved to
    successCount,
    failureCount,
    summaryPrinted      \* the "Screenshot process completed." block was logged

vars == <<config, phase, exitCode, browser, launchCalls, browserCloseCalls,
          tasks, files, results, successCount, failureCount, summaryPrinted>>

(***************************************************************************)
(* Bounds                                                                   *)
(***************************************************************************)
MaxTasks == 2       \* a valid config has at most this many (url, device) pairs
WidthSlack == 12    \* widths this far on either side of a breakpoint are tried
MaxDispatchUrls == 2 \* the dispatch configurations have at most this many urls
MaxPageScrolls == 3 \* at most this many scroll distances lie between the scroll position and the bottom

(***************************************************************************)
(* Program constants                                                        *)
(***************************************************************************)
MobileMaxWidth == 600
TabletMaxWidth == 1024
ScrollDistance == 300
\* the exit code of the process: none while it runs, then process.exit's argument
NoExit == <<>>
Exited(code) == <<code>>

Undefined == "<undefined>"

USER_AGENTS == [mobile |-> "UA-AndroidChrome", tablet |-> "UA-iPadSafari",
                desktop |-> "UA-WindowsChrome"]

\* JavaScript truthiness of a string-or-undefined, of a number, of a character sequence
TruthyStr(s) == s # Undefined /\ s # ""
TruthyNum(n) == n # 0
TruthySeq(s) == s # <<>>

\* variant: the breakpoints compared with < instead of <=
getDefaultUserAgentExclusive(width) ==
    IF width < MobileMaxWidth THEN USER_AGENTS.mobile
    ELSE IF width < TabletMaxWidth THEN USER_AGENTS.tablet
    ELSE USER_AGENTS.desktop

getDefaultUserAgent(width) ==
    IF width <= MobileMaxWidth THEN USER_AGENTS.mobile
    ELSE IF width <= TabletMaxWidth THEN USER_AGENTS.tablet
    ELSE USER_AGENTS.desktop

\* const userAgentToUse = device.userAgent || getDefaultUserAgent(device.width)
userAgentToUse(device) ==
    IF TruthyStr(device.userAgent) THEN device.userAgent
    ELSE getDefaultUserAgent(device.width)

(***************************************************************************)
(* File names                                                               *)
(***************************************************************************)
Letters == {"a","b","c","d","e","f","g","h","i","j","k","l","m","n","o","p","q",
            "r","s","t","u","v","w","x","y","z",
            "A","B","C","D","E","F","G","H","I","J","K","L","M","N","O","P","Q",
            "R","S","T","U","V","W","X","Y","Z"}
DigitChars == <<"0","1","2","3","4","5","6","7","8","9">>
AlphaNumeric == Letters \cup {DigitChars[i] : i \in 1..10}

HasPrefix(s, p) == Len(s) >= Len(p) /\ SubSeq(s, 1, Len(p)) = p
HasSuffix(s, p) == Len(s) >= Len(p) /\ SubSeq(s, Len(s) - Len(p) + 1, Len(s)) = p
Drop(s, n) == SubSeq(s, n + 1, Len(s))

HttpScheme == <<"h","t","t","p",":","/","/">>
HttpsScheme == <<"h","t","t","p","s",":","/","/">>

\* url.replace(/^https?:\/\//, "")
StripScheme(url) ==
    IF HasPrefix(url, HttpsScheme) THEN Drop(url, Len(HttpsScheme))
    ELSE IF HasPrefix(url, HttpScheme) THEN Drop(url, Len(HttpScheme))
    ELSE url

\* .replace(/[^a-zA-Z0-9]/g, "_")
ReplaceNonAlnum(s) == [i \in 1..Len(s) |-> IF s[i] \in AlphaNumeric THEN s[i] ELSE "_"]

urlFilename(url) == ReplaceNonAlnum(StripScheme(url))

\* the decimal digits a template literal writes for a non-negative integer
RECURSIVE NumToString(_)
NumToString(n) ==
    IF n < 10 THEN <<DigitChars[n + 1]>>
    ELSE NumToString(n \div 10) \o <<DigitChars[(n % 10) + 1]>>

PngExt == <<".","p","n","g">>
WebpExt == <<".","w","e","b","p">>

\* `${urlFilename}_${device.name}_${device.width}.png`, as a name inside dateTimeDir
screenshotPath(url, device) ==
    urlFilename(url) \o <<"_">> \o device.name \o <<"_">> \o NumToString(device.width) \o PngExt

\* screenshotPath.replace(/\.png$/, ".webp")
ReplacePngExt(p) ==
    IF HasSuffix(p, PngExt) THEN SubSeq(p, 1, Len(p) - Len(PngExt)) \o WebpExt ELSE p

webpPath(url, device) == ReplacePngExt(screenshotPath(url, device))

(***************************************************************************)
(* Configurations                                                           *)
(***************************************************************************)
UrlA == <<"h","t","t","p","s",":","/","/","a",".","t">>
UrlAHttp == <<"h","t","t","p",":","/","/","a",".","t">>
UrlB == <<"h","t","t","p","s",":","/","/","b",".","t","/","x","?","y","=","1">>
UrlPool == <<UrlA, UrlAHttp, UrlB>>

Device(name, width, height, ua) ==
    [name |-> name, width |-> width, height |-> height, userAgent |-> ua]

DevicePool ==
    << Device(<<"m">>, 400, 800, Undefined),
       Device(<<"d">>, 1280, 800, "X"),
       Device(<<>>, 400, 800, Undefined),
       Device(<<"w">>, 0, 800, Undefined),
       Device(<<"h">>, 400, 0, Undefined) >>

\* the sub-sequences of pool with 1..n elements, in pool order
SubLists(pool, n) ==
    { s \in UNION { [1..k -> 1..Len(pool)] : k \in 1..n } :
        \A i \in 1..(Len(s) - 1) : s[i] < s[i + 1] }

Pick(pool, idx) == [i \in 1..Len(idx) |-> pool[idx[i]]]

Array(items) == [type |-> "array", items |-> items]
NotArrays == { [type |-> "undefined", items |-> <<>>], [type |-> "object", items |-> <<>>] }

UrlLists ==
    NotArrays \cup {Array(<<>>)} \cup { Array(Pick(UrlPool, s)) : s \in SubLists(UrlPool, MaxTasks) }
DeviceLists ==
    NotArrays \cup {Array(<<>>)} \cup { Array(Pick(DevicePool, s)) : s \in SubLists(DevicePool, MaxTasks) }

Configs ==
    { c \in [urlList : UrlLists, deviceSizes : DeviceLists] :
        Len(c.urlList.items) * Len(c.deviceSizes.items) <= MaxTasks }

\* !urlList || !Array.isArray(urlList) || urlList.length === 0
UrlListInvalid(urlList) ==
    \/ urlList.type = "undefined"
    \/ urlList.type # "array"
    \/ Len(urlList.items) = 0

\* variant: the per-descriptor check of name, width and height left out
DeviceSizesInvalidNoEvery(deviceSizes) ==
    \/ deviceSizes.type = "undefined"
    \/ deviceSizes.type # "array"
    \/ Len(deviceSizes.items) = 0

\* !deviceSizes || !Array.isArray(deviceSizes) || deviceSizes.length === 0 ||
\* !deviceSizes.every((d) => d.name && d.width && d.height)
DeviceSizesInvalid(deviceSizes) ==
    \/ deviceSizes.type = "undefined"
    \/ deviceSizes.type # "array"
    \/ Len(deviceSizes.items) = 0
    \/ ~ \A i \in 1..Len(deviceSizes.items) :
            LET d == deviceSizes.items[i] IN
            TruthySeq(d.name) /\ TruthyNum(d.width) /\ TruthyNum(d.height)

(***************************************************************************)
(* takeSingleScreenshot                                                     *)
(*                                                                          *)
(* pc names the awaited operation the task is suspended on.  threw is the   *)
(* operation whose exception reached the catch block, ret the status field  *)
(* of the object the function returned, promise the state of the promise    *)
(* the async function handed to main.                                       *)
(***************************************************************************)
TrySteps == {"newContext", "newPage", "goto", "evaluateScroll", "evaluateTop",
             "waitForLoadState", "screenshot", "sharp", "unlink"}
ConsentSteps == {"waitForSelector", "click"}

\* error.message of the exception an operation throws, as its lines: the browser
\* engine reports a timeout with a call log after the first line, the re-encoder and
\* the file system report one line
ErrorMessage(step) ==
    IF step \in {"sharp", "unlink"}
    THEN <<"failed: " \o step>>
    ELSE <<"Timeout exceeded: " \o step, "Call log:", "  - waiting">>

\* error.message.split("\n")[0]
FirstLine(message) == SubSeq(message, 1, 1)

\* the distances to the bottom of the page that are told apart: the height of the
\* page itself is not bounded, only what is left of it below the scroll position
PageHeights == { ScrollDistance * k : k \in 1..MaxPageScrolls }

\* the synchronous head of takeSingleScreenshot, up to `await browser.newContext(...)`
NewTask(url, device) ==
    [ url |-> url,
      device |-> device,
      contextOptions |-> [ viewport |-> [width |-> device.width, height |-> device.height],
                           userAgent |-> userAgentToUse(device) ],
      pc |-> "newContext",
      context |-> FALSE,
      closeCalls |-> 0,
      hasCookieConsent |-> FALSE,
      scrollCalls |-> 0,
      remaining |-> 0,
      threw |-> "none",
      logged |-> <<>>,
      ret |-> "none",
      error |-> <<>>,
      promise |-> "pending" ]

\* variant: context.close() called without await, the promise settling at once
FinallyNoAwait(r) ==
    IF r.context
    THEN [r EXCEPT !.pc = "close", !.closeCalls = @ + 1, !.promise = "resolved"]
    ELSE [r EXCEPT !.pc = "settled", !.promise = "resolved"]

\* variant: the context closed at the end of the try block instead of in finally
FinallyCloseOnSuccessOnly(r) ==
    IF r.context /\ r.ret = "fulfilled"
    THEN [r EXCEPT !.pc = "close", !.closeCalls = @ + 1]
    ELSE [r EXCEPT !.pc = "settled", !.promise = "resolved"]

\* finally { if (context) { await context.close(); } }, entered with the function's
\* completion already decided; without a context the promise settles at once
Finally(r) ==
    IF r.context
    THEN [r EXCEPT !.pc = "close", !.closeCalls = @ + 1]
    ELSE [r EXCEPT !.pc = "settled", !.promise = "resolved"]

\* variant: a navigation failure logged and ignored, the task carrying on
CatchContinues(r, step) ==
    IF step = "goto"
    THEN [r EXCEPT !.threw = step, !.pc = "waitForSelector"]
    ELSE Finally([r EXCEPT !.threw = step, !.ret = "rejected"])

\* catch (error) { console.error(..., error.message.split("\n")[0]);
\*                 return { status: "rejected", url, device, error: error.message } }
\* finally ...
Catch(r, step) ==
    Finally([r EXCEPT !.threw = step,
                      !.remaining = 0,
                      !.logged = FirstLine(ErrorMessage(step)),
                      !.ret = "rejected",
                      !.error = ErrorMessage(step)])

\* return { status: "fulfilled", url, device: device.name } finally ...
ReturnFulfilled(r) == Finally([r EXCEPT !.ret = "fulfilled"])

\* task continuations run only while main is suspended on an await; in the sequential
\* variant the pair's continuations are those of takeScreenshots itself ("seqLoop")
MainSuspended == phase \in {"awaitAll", "closingBrowser", "seqLoop"}

At(t, step) ==
    /\ MainSuspended
    /\ t \in 1..Len(tasks)
    /\ tasks[t].pc = step

Update(t, r) == tasks' = [tasks EXCEPT ![t] = r]

MainUnchanged ==
    UNCHANGED <<config, phase, exitCode, browser, launchCalls, browserCloseCalls,
                results, successCount, failureCount, summaryPrinted>>

\* context = await browser.newContext(contextOptions); then context.newPage() is called
NewContextReturns(t) ==
    /\ At(t, "newContext")
    /\ Update(t, [tasks[t] EXCEPT !.context = TRUE, !.pc = "newPage"])
    /\ UNCHANGED files /\ MainUnchanged

\* const page = await context.newPage(); then page.goto(...) is called
NewPageReturns(t) ==
    /\ At(t, "newPage")
    /\ Update(t, [tasks[t] EXCEPT !.pc = "goto"])
    /\ UNCHANGED files /\ MainUnchanged

\* await page.goto(...); then page.waitForSelector(...) is called
GotoReturns(t) ==
    /\ At(t, "goto")
    /\ Update(t, [tasks[t] EXCEPT !.pc = "waitForSelector"])
    /\ UNCHANGED files /\ MainUnchanged

\* await page.waitForSelector(...) found the button; then page.click(...) is called
WaitForSelectorReturns(t) ==
    /\ At(t, "waitForSelector")
    /\ Update(t, [tasks[t] EXCEPT !.pc = "click"])
    /\ UNCHANGED files /\ MainUnchanged

\* variant: the scroll performed on every page, the consent flag not tested
AfterConsentAlwaysScroll(r, height) ==
    [r EXCEPT !.pc = "evaluateScroll", !.scrollCalls = @ + 1, !.remaining = height]

\* if (hasCookieConsent) { await page.evaluate(<scroll to the bottom>); ... }
\* await page.waitForLoadState(...): what follows the consent try/catch, on a page
\* `height` pixels high; remaining is document.body.scrollHeight - totalHeight
AfterConsent(r, height) ==
    IF r.hasCookieConsent
    THEN [r EXCEPT !.pc = "evaluateScroll", !.scrollCalls = @ + 1, !.remaining = height]
    ELSE [r EXCEPT !.pc = "waitForLoadState"]

\* variant: no inner try/catch, a consent failure reaches the outer catch
ConsentCatchPropagates(r, height) == Catch(r, r.pc)

\* catch (error) { } of the inner try: a failure of waitForSelector or click is
\* swallowed and hasCookieConsent stays false
ConsentCatch(r, height) == AfterConsent(r, height)

\* await page.click(...); hasCookieConsent = true; then the scroll script is evaluated
ClickReturns(t) ==
    /\ At(t, "click")
    /\ \E height \in PageHeights :
          Update(t, AfterConsent([tasks[t] EXCEPT !.hasCookieConsent = TRUE], height))
    /\ UNCHANGED files /\ MainUnchanged

\* waitForSelector or click threw: the inner catch, the scroll is skipped and
\* page.waitForLoadState(...) is called
ConsentThrows(t) ==
    /\ \E step \in ConsentSteps : At(t, step)
    /\ \E height \in PageHeights : Update(t, ConsentCatch(tasks[t], height))
    /\ UNCHANGED files /\ MainUnchanged

\* a tick of the setInterval timer inside the page that does not reach the bottom:
\* window.scrollBy(0, distance); totalHeight += distance; totalHeight < scrollHeight.
\* Scrolling may make the page load more content before the next tick.
EvaluateScrollTick(t) ==
    /\ At(t, "evaluateScroll")
    /\ tasks[t].remaining > ScrollDistance
    /\ \E growth \in {0} \cup PageHeights :
          /\ tasks[t].remaining - ScrollDistance + growth \in PageHeights
          /\ Update(t, [tasks[t] EXCEPT !.remaining = @ - ScrollDistance + growth])
    /\ UNCHANGED files /\ MainUnchanged

\* the tick with totalHeight >= scrollHeight: clearInterval, resolve; the scroll
\* script resolved and window.scrollTo(0, 0) is evaluated
EvaluateScrollReturns(t) ==
    /\ At(t, "evaluateScroll")
    /\ tasks[t].remaining <= ScrollDistance
    /\ Update(t, [tasks[t] EXCEPT !.pc = "evaluateTop", !.remaining = 0])
    /\ UNCHANGED files /\ MainUnchanged

\* the scroll-to-top script resolved; then page.waitForLoadState(...) is called
EvaluateTopReturns(t) ==
    /\ At(t, "evaluateTop")
    /\ Update(t, [tasks[t] EXCEPT !.pc = "waitForLoadState"])
    /\ UNCHANGED files /\ MainUnchanged

\* await page.waitForLoadState(...); then page.screenshot({path: screenshotPath}) is called
WaitForLoadStateReturns(t) ==
    /\ At(t, "waitForLoadState")
    /\ Update(t, [tasks[t] EXCEPT !.pc = "screenshot"])
    /\ UNCHANGED files /\ MainUnchanged

\* await page.screenshot(...) wrote the PNG; then sharp(...).toFile(webpPath) is called
ScreenshotReturns(t) ==
    /\ At(t, "screenshot")
    /\ files' = files \cup {screenshotPath(tasks[t].url, tasks[t].device)}
    /\ Update(t, [tasks[t] EXCEPT !.pc = "sharp"])
    /\ MainUnchanged

\* await sharp(screenshotPath).webp().toFile(webpPath) read the PNG and wrote the WebP;
\* then fs.unlink(screenshotPath) is called
SharpReturns(t) ==
    /\ At(t, "sharp")
    /\ screenshotPath(tasks[t].url, tasks[t].device) \in files
    /\ files' = files \cup {webpPath(tasks[t].url, tasks[t].device)}
    /\ Update(t, [tasks[t] EXCEPT !.pc = "unlink"])
    /\ MainUnchanged

\* await fs.unlink(screenshotPath) removed the PNG; success is logged and returned,
\* and the finally block runs
UnlinkReturns(t) ==
    /\ At(t, "unlink")
    /\ screenshotPath(tasks[t].url, tasks[t].device) \in files
    /\ files' = files \ {screenshotPath(tasks[t].url, tasks[t].device)}
    /\ Update(t, ReturnFulfilled(tasks[t]))
    /\ MainUnchanged

\* an awaited operation of the outer try block threw: catch, then finally
StepThrows(t) ==
    /\ \E step \in TrySteps :
          /\ At(t, step)
          /\ Update(t, Catch(tasks[t], step))
    /\ UNCHANGED files /\ MainUnchanged

\* await context.close() returned: the promise resolves with the returned object
ContextCloseReturns(t) ==
    /\ At(t, "close")
    /\ Update(t, [tasks[t] EXCEPT !.pc = "settled", !.promise = "resolved"])
    /\ UNCHANGED files /\ MainUnchanged

\* await context.close() threw inside finally: the exception replaces the return value
\* and the promise rejects
ContextCloseThrows(t) ==
    /\ At(t, "close")
    /\ Update(t, [tasks[t] EXCEPT !.pc = "settled", !.promise = "rejected"])
    /\ UNCHANGED files /\ MainUnchanged

TaskStep(t) ==
    \/ NewContextReturns(t) \/ NewPageReturns(t) \/ GotoReturns(t)
    \/ WaitForSelectorReturns(t) \/ ClickReturns(t) \/ ConsentThrows(t)
    \/ EvaluateScrollTick(t) \/ EvaluateScrollReturns(t) \/ EvaluateTopReturns(t)
    \/ WaitForLoadStateReturns(t) \/ ScreenshotReturns(t)
    \/ SharpReturns(t) \/ UnlinkReturns(t) \/ StepThrows(t)
    \/ ContextCloseReturns(t) \/ ContextCloseThrows(t)

(***************************************************************************)
(* main                                                                     *)
(***************************************************************************)
Urls == config.urlList.items
Devices == config.deviceSizes.items

\* variant: the loops nested the other way round (device-major order)
CrossProductDeviceMajor(urls, devices) ==
    [ k \in 1..(Len(urls) * Len(devices)) |->
        NewTask(urls[((k - 1) % Len(urls)) + 1],
                devices[((k - 1) \div Len(urls)) + 1]) ]

\* variant: the inner loop over the devices left out (first device only)
CrossProductPerUrl(urls, devices) ==
    [ k \in 1..Len(urls) |-> NewTask(urls[k], devices[1]) ]

\* for (const url of urlList) for (const device of deviceSizes)
\*     screenshotTasks.push(takeSingleScreenshot(browser, url, device, dateTimeDir))
CrossProduct(urls, devices) ==
    [ k \in 1..(Len(urls) * Len(devices)) |->
        NewTask(urls[((k - 1) \div Len(devices)) + 1],
                devices[((k - 1) % Len(devices)) + 1]) ]

\* variant: a fail-fast join (Promise.all), which completes on the first rejection
AllTasksSettledFailFast(ts) ==
    \/ \A t \in 1..Len(ts) : ts[t].promise # "pending"
    \/ \E t \in 1..Len(ts) : ts[t].promise = "rejected"

\* Promise.allSettled resolves once every promise of the array has settled
AllTasksSettled(ts) == \A t \in 1..Len(ts) : ts[t].promise # "pending"

\* variant: a join that throws when some task failed
AwaitThrowsOnFailure(ts) ==
    \E t \in 1..Len(ts) : ts[t].promise = "rejected" \/ ts[t].ret = "rejected"

\* Promise.allSettled never rejects, so the await of line 234 never throws
AwaitThrows(ts) == FALSE

\* the entry Promise.allSettled produces for one promise
SettledResult(r) ==
    IF r.promise = "resolved"
    THEN [status |-> "fulfilled", value |-> r.ret]
    ELSE [status |-> "rejected", value |-> "reason"]

\* results.forEach((result) => { if (result.status === "fulfilled") successCount++;
\*                               else failureCount++; })
CountSuccess(rs) == Cardinality({ i \in 1..Len(rs) : rs[i].status = "fulfilled" })
CountFailure(rs) == Cardinality({ i \in 1..Len(rs) : ~ (rs[i].status = "fulfilled") })

\* variant: browser.close() at the end of the try block, skipped by the finally
CloseBrowserCallsSkipped(b, calls) == calls

\* finally { if (browser) { await browser.close(); ... } }: the number of calls made
CloseBrowserCalls(b, calls) == IF b # "null" THEN calls + 1 ELSE calls

\* validation of the config, then the run directory, then chromium.launch() is called
Validate ==
    /\ phase = "start"
    /\ IF UrlListInvalid(config.urlList) \/ DeviceSizesInvalid(config.deviceSizes)
       THEN /\ phase' = "done"
            /\ exitCode' = Exited(1)
            /\ UNCHANGED launchCalls
       ELSE /\ phase' = "launching"
            /\ launchCalls' = launchCalls + 1
            /\ UNCHANGED exitCode
    /\ UNCHANGED <<config, browser, browserCloseCalls, tasks, files, results,
                   successCount, failureCount, summaryPrinted>>

\* const browser = await chromium.launch() returned: every task is started, none is
\* awaited, and main suspends on Promise.allSettled(screenshotTasks)
LaunchReturns ==
    /\ phase = "launching"
    /\ browser' = "open"
    /\ tasks' = CrossProduct(Urls, Devices)
    /\ phase' = "awaitAll"
    /\ UNCHANGED <<config, exitCode, launchCalls, browserCloseCalls, files, results,
                   successCount, failureCount, summaryPrinted>>

\* chromium.launch() threw outside main's try: main rejects, main().catch exits with 1
LaunchThrows ==
    /\ phase = "launching"
    /\ phase' = "done"
    /\ exitCode' = Exited(1)
    /\ UNCHANGED <<config, browser, launchCalls, browserCloseCalls, tasks, files,
                   results, successCount, failureCount, summaryPrinted>>

\* every promise has settled: tally and summary (or the catch block, had the await
\* thrown), then the finally block calls browser.close()
AllSettled ==
    /\ phase = "awaitAll"
    /\ AllTasksSettled(tasks)
    /\ IF AwaitThrows(tasks)
       THEN UNCHANGED <<results, successCount, failureCount, summaryPrinted>>
       ELSE LET rs == [t \in 1..Len(tasks) |-> SettledResult(tasks[t])] IN
            /\ results' = rs
            /\ successCount' = CountSuccess(rs)
            /\ failureCount' = CountFailure(rs)
            /\ summaryPrinted' = TRUE
    /\ browserCloseCalls' = CloseBrowserCalls(browser, browserCloseCalls)
    /\ phase' = IF browser # "null" THEN "closingBrowser" ELSE "done"
    /\ exitCode' = IF browser # "null" THEN exitCode ELSE Exited(0)
    /\ UNCHANGED <<config, browser, launchCalls, tasks, files>>

\* await browser.close() returned: "Browser closed." is logged, main resolves and the
\* process ends with exit code 0
BrowserCloseReturns ==
    /\ phase = "closingBrowser"
    /\ browser' = "closed"
    /\ phase' = "done"
    /\ exitCode' = Exited(0)
    /\ UNCHANGED <<config, launchCalls, browserCloseCalls, tasks, files, results,
                   successCount, failureCount, summaryPrinted>>

\* await browser.close() threw inside finally: main rejects, main().catch exits with 1
BrowserCloseThrows ==
    /\ phase = "closingBrowser"
    /\ phase' = "done"
    /\ exitCode' = Exited(1)
    /\ UNCHANGED <<config, browser, launchCalls, browserCloseCalls, tasks, files,
                   results, successCount, failureCount, summaryPrinted>>

InitWith(cfgs) ==
    /\ config \in cfgs
    /\ phase = "start"
    /\ exitCode = NoExit
    /\ browser = "null"
    /\ launchCalls = 0
    /\ browserCloseCalls = 0
    /\ tasks = <<>>
    /\ files = {}
    /\ results = <<>>
    /\ successCount = 0
    /\ failureCount = 0
    /\ summaryPrinted = FALSE

Init == InitWith(Configs)

Next ==
    \/ Validate
    \/ LaunchReturns
    \/ LaunchThrows
    \/ \E t \in 1..MaxTasks + 1 : TaskStep(t)
    \/ AllSettled
    \/ BrowserCloseReturns
    \/ BrowserCloseThrows

Spec == Init /\ [][Next]_vars

(***************************************************************************)
(* A second set of configurations: one url, one device, with the width on   *)
(* either side of the breakpoints and the user agent set, empty or absent.  *)
(***************************************************************************)
BreakpointWidths ==
    {400, 1280}
    \cup ((MobileMaxWidth - WidthSlack)..(MobileMaxWidth + WidthSlack))
    \cup ((TabletMaxWidth - WidthSlack)..(TabletMaxWidth + WidthSlack))

UserAgentConfigs ==
    { [urlList |-> Array(<<UrlA>>),
       deviceSizes |-> Array(<<Device(<<"m">>, w, 800, ua)>>)] :
        w \in BreakpointWidths, ua \in {Undefined, "", "X"} }

InitUserAgent == InitWith(UserAgentConfigs)

SpecUserAgent == InitUserAgent /\ [][Next]_vars

(***************************************************************************)
(* Properties                                                               *)
(***************************************************************************)
U == Len(Urls)
D == Len(Devices)
\* a config is valid when urlList and deviceSizes are non-empty arrays and every
\* descriptor has a non-empty name and a non-zero width and height
ConfigValid ==
    /\ config.urlList.type = "array" /\ Urls # <<>>
    /\ config.deviceSizes.type = "array" /\ Devices # <<>>
    /\ \A i \in 1..Len(Devices) :
          Devices[i].name # <<>> /\ Devices[i].width # 0 /\ Devices[i].height # 0
TaskIds == 1..Len(tasks)
Settled(t) == tasks[t].pc = "settled"
ReturnedFailure(t) == tasks[t].ret = "rejected"
ReturnedSuccess(t) == tasks[t].ret = "fulfilled"

\* C1: once the browser is launched exactly U x D capture tasks have been dispatched,
\* and at the summary the all-settled join has delivered exactly U x D results and
\* the printed successCount + failureCount equals U x D, whatever steps failed.
C1_ExactlyUxDOutcomes ==
    /\ browser # "null" => Len(tasks) = U * D
    /\ browser = "null" => Len(tasks) = 0
    /\ summaryPrinted =>
          /\ Len(results) = U * D
          /\ successCount + failureCount = U * D

C1_Witness ==
    /\ summaryPrinted
    /\ U * D = 2
    /\ successCount + failureCount = 2
    /\ ReturnedFailure(1)
    /\ ReturnedSuccess(2)

\* C2: a task's failure neither cancels nor blocks a sibling: while main waits, every
\* unsettled task can take its next step; main passes the join only when every task
\* is terminal; and the outcome of a settled task is decided by its own steps alone
\* (rejected promise iff its close threw, failure object iff one of its steps threw).
C2_FailureIsolation ==
    /\ \A t \in TaskIds :
          (phase = "awaitAll" /\ ~ Settled(t)) => ENABLED TaskStep(t)
    /\ phase \in {"closingBrowser", "done"} => \A t \in TaskIds : Settled(t)
    /\ \A t \in TaskIds :
          Settled(t) =>
             /\ tasks[t].promise \in {"resolved", "rejected"}
             /\ ReturnedFailure(t) <=> tasks[t].threw # "none"
             /\ ReturnedSuccess(t) <=> tasks[t].threw = "none"

C2_Witness ==
    /\ phase = "done"
    /\ Len(tasks) = 2
    /\ Len(results) = 2
    /\ tasks[1].threw = "goto"
    /\ ReturnedSuccess(2)
    /\ tasks[2].promise = "resolved"

\* C2, the case in which every task fails
C2_WitnessAllFail ==
    /\ phase = "done"
    /\ Len(tasks) = 2
    /\ Len(results) = 2
    /\ \A t \in TaskIds : ReturnedFailure(t)

\* C3: at the summary failureCount is the number of tasks that returned a failure
\* outcome and successCount the number of tasks that completed every step.
C3_TallyClassifiesOutcomes ==
    summaryPrinted =>
       /\ failureCount = Cardinality({ t \in TaskIds : ReturnedFailure(t) })
       /\ successCount = Cardinality({ t \in TaskIds : ReturnedSuccess(t) })

\* C4: the promise returned by takeSingleScreenshot is never rejected, whichever
\* step threw, context.close included.
C4_NeverRejects ==
    \A t \in TaskIds : tasks[t].promise # "rejected"

\* C5: context.close is invoked at most once per task; a settled task has invoked it
\* exactly once if newContext returned a context (whatever step failed later, or
\* none) and never if newContext itself failed; at the end of the run close has been
\* invoked on every created context.
C5_ContextClosedOnEveryPath ==
    /\ \A t \in TaskIds :
          /\ tasks[t].closeCalls <= 1
          /\ ~ tasks[t].context => tasks[t].closeCalls = 0
          /\ Settled(t) => tasks[t].closeCalls = (IF tasks[t].context THEN 1 ELSE 0)
          /\ tasks[t].threw = "newContext" => ~ tasks[t].context
          /\ tasks[t].pc = "close" => tasks[t].promise = "pending"
    /\ phase = "done" =>
          \A t \in TaskIds : tasks[t].context => tasks[t].closeCalls = 1

C5_Witness ==
    /\ phase = "done"
    /\ Len(tasks) = 2
    /\ tasks[1].threw = "newContext" /\ tasks[1].closeCalls = 0
    /\ tasks[2].threw = "screenshot" /\ tasks[2].context /\ tasks[2].closeCalls = 1

\* C6: a run that passes validation calls chromium.launch exactly once, and a run
\* whose launch returned a browser calls browser.close exactly once before it
\* terminates, however many tasks failed; close is never called without a browser.
C6_BrowserLifetime ==
    /\ launchCalls <= 1
    /\ browserCloseCalls <= 1
    /\ (ConfigValid /\ phase # "start") => launchCalls = 1
    /\ browser = "null" => browserCloseCalls = 0
    /\ (phase = "done" /\ browser # "null") => browserCloseCalls = 1
    /\ phase = "closingBrowser" => browserCloseCalls = 1

C6_Witness ==
    /\ phase = "done"
    /\ launchCalls = 1
    /\ browserCloseCalls = 1
    /\ Len(tasks) = 2
    /\ \A t \in TaskIds : tasks[t].threw = "goto"

\* C7: with an invalid config (urlList or deviceSizes missing, not an array or empty,
\* or a descriptor with a falsy name, width or height) the run ends with exit code 1
\* and launches no browser, creates no context and starts no task.
C7_FailFastValidation ==
    ~ ConfigValid =>
       /\ phase \in {"start", "done"}
       /\ phase = "done" => exitCode = Exited(1)
       /\ launchCalls = 0
       /\ browser = "null"
       /\ tasks = <<>>
       /\ files = {}

C7_Witness ==
    /\ phase = "done"
    /\ exitCode = Exited(1)
    /\ ~ UrlListInvalid(config.urlList)
    /\ Len(Devices) = 2
    /\ TruthySeq(Devices[1].name) /\ TruthyNum(Devices[1].width) /\ TruthyNum(Devices[1].height)
    /\ ~ TruthyNum(Devices[2].width)
    /\ launchCalls = 0

\* C8: task failures are not fatal: once every task is terminal the summary is
\* printed and browser.close is called; a run whose browser closed ends with exit
\* code 0; exit code 1 is reached only through an invalid config, a failed launch
\* or a failed browser.close, never through a task.
C8_PartialFailureNotFatal ==
    /\ (phase \in {"closingBrowser", "done"} /\ browser # "null") =>
          /\ summaryPrinted
          /\ browserCloseCalls = 1
    /\ (phase = "done" /\ browser = "closed") => exitCode = Exited(0)
    /\ exitCode = Exited(1) =>
          \/ ~ ConfigValid
          \/ browser = "null" /\ launchCalls = 1
          \/ browser = "open" /\ browserCloseCalls = 1 /\ phase = "done"

C8_Witness ==
    /\ phase = "done"
    /\ exitCode = Exited(0)
    /\ browser = "closed"
    /\ summaryPrinted
    /\ Len(tasks) = 2
    /\ tasks[1].threw = "waitForLoadState"
    /\ tasks[2].threw = "sharp"

\* C9: the user agent passed to newContext is device.userAgent when that is set (a
\* non-empty string), whatever the width; otherwise the mobile default for
\* width <= 600, the tablet default for 600 < width <= 1024 and the desktop default
\* for width > 1024.
C9_UserAgentResolution ==
    \A t \in TaskIds :
       LET d == tasks[t].device
           ua == tasks[t].contextOptions.userAgent
       IN  IF d.userAgent \notin {Undefined, ""}
           THEN ua = d.userAgent
           ELSE /\ d.width <= 600 => ua = USER_AGENTS.mobile
                /\ (600 < d.width /\ d.width <= 1024) => ua = USER_AGENTS.tablet
                /\ d.width > 1024 => ua = USER_AGENTS.desktop
                /\ d.width = 600 => ua = "UA-AndroidChrome"
                /\ d.width = 601 => ua = "UA-iPadSafari"
                /\ d.width = 1024 => ua = "UA-iPadSafari"
                /\ d.width = 1025 => ua = "UA-WindowsChrome"

C9_Witness ==
    /\ Len(tasks) = 1
    /\ tasks[1].context
    /\ tasks[1].device.width = 1024
    /\ tasks[1].device.userAgent = Undefined
    /\ tasks[1].contextOptions.userAgent = USER_AGENTS.tablet

\* C10: with unique device names, any two distinct tasks (url1, device1) # (url2,
\* device2) of a run have different intermediate .png paths and different final
\* .webp paths.
C10_PathsCollisionFree ==
    (\A i, j \in 1..D : i # j => Devices[i].name # Devices[j].name) =>
       \A i, j \in TaskIds :
          (i # j /\ <<tasks[i].url, tasks[i].device>> # <<tasks[j].url, tasks[j].device>>) =>
             /\ screenshotPath(tasks[i].url, tasks[i].device)
                  # screenshotPath(tasks[j].url, tasks[j].device)
             /\ webpPath(tasks[i].url, tasks[i].device)
                  # webpPath(tasks[j].url, tasks[j].device)

(***************************************************************************)
(* Fairness: an awaited operation eventually returns or throws, a timer     *)
(* eventually fires, and a continuation that can run eventually runs.       *)
(***************************************************************************)
MainStep ==
    Validate \/ LaunchReturns \/ LaunchThrows \/ AllSettled
    \/ BrowserCloseReturns \/ BrowserCloseThrows

Fairness ==
    /\ WF_vars(MainStep)
    /\ \A t \in 1..MaxTasks + 1 : WF_vars(TaskStep(t))

SpecFair == Init /\ [][Next]_vars /\ Fairness

\* C11: under fairness every dispatched task eventually reaches a terminal outcome
\* and the run eventually reaches Done, the auto-scroll on a growing page included.
C11_EventuallyDone ==
    <>(phase = "done" /\ \A t \in TaskIds : Settled(t))

\* C12: at the end of a run a task's .webp file exists at its output path if and
\* only if the task's outcome is success; a task with a failure outcome, whatever
\* step failed (the delete of the intermediate file included), produced no .webp.
C12_WebpIffSuccess ==
    (phase = "done" /\ browser # "null") =>
       \A t \in TaskIds :
          webpPath(tasks[t].url, tasks[t].device) \in files <=> ReturnedSuccess(t)

\* C13: a failure outcome carries the task's url and device name and an error field
\* equal to the first line of the caught exception's message, and no later line.
C13_ErrorIsFirstLine ==
    \A t \in TaskIds :
       ReturnedFailure(t) =>
          /\ tasks[t].threw # "none"
          /\ tasks[t].error = <<ErrorMessage(tasks[t].threw)[1]>>

\* C14: the auto-scroll is invoked at most once per task, and it is invoked if and
\* only if the consent control was found and the click on it succeeded: never before
\* the consent attempt is over, never when the wait or the click threw, and exactly
\* once, ahead of the second quiescence wait, when the click succeeded.
C14_ScrollIffConsent ==
    \A t \in TaskIds :
       LET r == tasks[t] IN
       /\ r.scrollCalls <= 1
       /\ r.pc \in {"newContext", "newPage", "goto", "waitForSelector", "click"} =>
             r.scrollCalls = 0 /\ ~ r.hasCookieConsent
       /\ r.hasCookieConsent => r.scrollCalls = 1
       /\ ~ r.hasCookieConsent =>
             r.scrollCalls = 0 /\ r.pc \notin {"evaluateScroll", "evaluateTop"}
       /\ r.threw \in {"evaluateScroll", "evaluateTop"} => r.hasCookieConsent

C14_Witness ==
    /\ Len(tasks) = 2
    /\ \A t \in TaskIds : Settled(t) /\ ReturnedSuccess(t)
    /\ tasks[1].hasCookieConsent /\ tasks[1].scrollCalls = 1
    /\ ~ tasks[2].hasCookieConsent /\ tasks[2].scrollCalls = 0

\* C15: a failure of the consent wait or of the consent click never reaches the
\* outer catch: the task goes on to the second quiescence wait with nothing thrown
\* and can still end in success.  A failure of the second quiescence wait ends the
\* task in a failure outcome, with no screenshot taken and no file of the task
\* written.
C15_AsymmetricSettleErrors ==
    \A t \in TaskIds :
       LET r == tasks[t]
           alone == \A u \in TaskIds \ {t} :
                       screenshotPath(tasks[u].url, tasks[u].device)
                          # screenshotPath(r.url, r.device)
       IN
       /\ r.threw \notin ConsentSteps
       /\ r.pc = "waitForLoadState" =>
             r.threw = "none" /\ r.ret = "none" /\ r.promise = "pending"
       /\ r.threw = "waitForLoadState" =>
             /\ r.pc \in {"close", "settled"}
             /\ ReturnedFailure(t)
             /\ alone => /\ screenshotPath(r.url, r.device) \notin files
                         /\ webpPath(r.url, r.device) \notin files

C15_Witness ==
    /\ Len(tasks) = 2
    /\ \A t \in TaskIds : Settled(t)
    /\ ~ tasks[1].hasCookieConsent /\ ReturnedSuccess(1)
    /\ tasks[2].threw = "waitForLoadState" /\ ReturnedFailure(2)
    /\ screenshotPath(tasks[2].url, tasks[2].device) # screenshotPath(tasks[1].url, tasks[1].device)
    /\ webpPath(tasks[2].url, tasks[2].device) \notin files

\* the successions of awaited operations inside one task that the claimed order allows
ClaimedSuccessions ==
    { <<"newContext", "newPage">>, <<"newPage", "goto">>, <<"goto", "waitForSelector">>,
      <<"waitForSelector", "click">>, <<"waitForSelector", "waitForLoadState">>,
      <<"click", "evaluateScroll">>, <<"click", "waitForLoadState">>,
      <<"evaluateScroll", "evaluateTop">>, <<"evaluateTop", "waitForLoadState">>,
      <<"waitForLoadState", "screenshot">>, <<"screenshot", "sharp">>,
      <<"sharp", "unlink">>, <<"unlink", "close">>, <<"close", "settled">> }

\* C16: inside a task the operations follow each other strictly in the order
\* newContext, newPage, goto, consent attempt, (scroll), second quiescence wait,
\* screenshot, re-encode, delete; an operation is pending only while nothing has
\* been thrown to the outer catch, and a throw leads only to the cleanup.  A step
\* moves one task only, and while main waits every unsettled task can step
\* whatever the others are doing.
C16_IntraTaskOrder ==
    [][ /\ \A t \in TaskIds :
             LET from == tasks[t].pc
                 to == tasks'[t].pc
             IN  /\ from \notin {"close", "settled"} => tasks[t].threw = "none"
                 /\ from # to =>
                       \/ <<from, to>> \in ClaimedSuccessions
                       \/ /\ tasks'[t].threw = from
                          /\ from \in TrySteps
                          /\ to = (IF from = "newContext" THEN "settled" ELSE "close")
                 /\ (phase = "awaitAll" /\ from # "settled") => ENABLED TaskStep(t)
        /\ \A t, u \in TaskIds :
             (tasks'[t] # tasks[t] /\ tasks'[u] # tasks[u]) => t = u
      ]_vars

\* a later task ahead of an earlier one
C16_Witness ==
    /\ Len(tasks) = 2
    /\ tasks[1].pc = "newContext"
    /\ tasks[2].pc = "unlink"
    /\ tasks[2].threw = "none"

\* C16: an earlier task ahead of a later one
C16_WitnessEarlierAhead ==
    /\ Len(tasks) = 2
    /\ tasks[2].pc = "newContext"
    /\ tasks[1].pc = "unlink"

(***************************************************************************)
(* Dispatch configurations: several urls times both valid devices, with a  *)
(* browser in which context.newPage always throws.                          *)
(***************************************************************************)
DispatchConfigs ==
    { [urlList |-> Array(Pick(UrlPool, s)),
       deviceSizes |-> Array(<<DevicePool[1], DevicePool[2]>>)] :
        s \in SubLists(UrlPool, MaxDispatchUrls) }

InitDispatch == InitWith(DispatchConfigs)

NextDispatch ==
    \/ Validate
    \/ LaunchReturns
    \/ LaunchThrows
    \/ \E t \in TaskIds :
          \/ NewContextReturns(t) \/ StepThrows(t)
          \/ ContextCloseReturns(t) \/ ContextCloseThrows(t)
    \/ AllSettled
    \/ BrowserCloseReturns
    \/ BrowserCloseThrows

SpecDispatch == InitDispatch /\ [][NextDispatch]_vars

\* C17: the step that dispatches starts all U x D tasks at once, in url-major /
\* device-minor order, each suspended on its own newContext request and none
\* terminal, so all of them are in flight together before any task proceeds past
\* context creation; no task is started later.
C17_UncappedDispatch ==
    [][ /\ (tasks = <<>> /\ tasks' # <<>>) =>
              /\ Len(tasks') = U * D
              /\ \A i \in 1..U, j \in 1..D :
                    /\ tasks'[(i - 1) * D + j].url = Urls[i]
                    /\ tasks'[(i - 1) * D + j].device = Devices[j]
              /\ \A k \in 1..Len(tasks') :
                    /\ tasks'[k].pc = "newContext"
                    /\ tasks'[k].promise = "pending"
                    /\ ~ tasks'[k].context
        /\ tasks # <<>> => Len(tasks') = Len(tasks)
      ]_vars

C17_Witness ==
    /\ U = 2 /\ D = 2
    /\ Len(tasks) = 4
    /\ \A k \in TaskIds : tasks[k].pc = "newContext" /\ tasks[k].promise = "pending"
    /\ tasks[2].url = Urls[1] /\ tasks[2].device = Devices[2]
    /\ tasks[3].url = Urls[2] /\ tasks[3].device = Devices[1]

\* C18: after a task returned a success outcome its .webp exists and its .png does
\* not; a task that has not failed finds its .png on disk only while it is between
\* its own screenshot step and its own delete step (suspended on sharp or unlink).
C18_IntermediateNeverFinal ==
    \A t \in TaskIds :
       /\ ReturnedSuccess(t) =>
             /\ webpPath(tasks[t].url, tasks[t].device) \in files
             /\ screenshotPath(tasks[t].url, tasks[t].device) \notin files
       /\ (screenshotPath(tasks[t].url, tasks[t].device) \in files /\ ~ ReturnedFailure(t)) =>
             tasks[t].pc \in {"sharp", "unlink"}

(***************************************************************************)
(* The sequential variant, takeScreenshots: one (url, device) pair at a     *)
(* time; tasks holds the pairs attempted so far, the last one is current.   *)
(***************************************************************************)
\* the loop body up to `await browser.newContext({ viewport })`
NewPair(url, device) ==
    [ NewTask(url, device) EXCEPT
        !.contextOptions = [ viewport |-> [width |-> device.width,
                                           height |-> device.height] ] ]

\* for (const url of urlList) { for (const device of deviceSizes) { ... } }
SeqPairAt(k) == NewPair(Urls[((k - 1) \div D) + 1], Devices[((k - 1) % D) + 1])

SeqTrySteps == TrySteps \ {"newContext", "newPage"}

\* finally { await context.close(); }
SeqFinally(r) == [r EXCEPT !.pc = "close", !.closeCalls = @ + 1]

\* catch (error) { console.error(`Error capturing ...`, error.message); } finally ...
SeqCatch(r, step) ==
    SeqFinally([r EXCEPT !.threw = step,
                         !.remaining = 0,
                         !.logged = ErrorMessage(step)])

SeqCurrent(t) == t = Len(tasks) /\ phase = "seqLoop"

\* const browser = await chromium.launch() returned: the loops start with the first pair
SeqLaunchReturns ==
    /\ phase = "launching"
    /\ browser' = "open"
    /\ tasks' = <<SeqPairAt(1)>>
    /\ phase' = "seqLoop"
    /\ UNCHANGED <<config, exitCode, launchCalls, browserCloseCalls, files, results,
                   successCount, failureCount, summaryPrinted>>

\* await browser.newContext(...) or await context.newPage() threw: both stand before
\* the try block, so takeScreenshots rejects and takeScreenshots().catch exits with 1
SeqCreateThrows(t) ==
    /\ SeqCurrent(t)
    /\ \E step \in {"newContext", "newPage"} :
          /\ At(t, step)
          /\ Update(t, [tasks[t] EXCEPT !.threw = step, !.pc = "aborted"])
    /\ phase' = "done"
    /\ exitCode' = Exited(1)
    /\ UNCHANGED <<config, browser, launchCalls, browserCloseCalls, files, results,
                   successCount, failureCount, summaryPrinted>>

\* await fs.unlink(screenshotPath) returned: end of the try block, then finally
SeqUnlinkReturns(t) ==
    /\ SeqCurrent(t)
    /\ At(t, "unlink")
    /\ screenshotPath(tasks[t].url, tasks[t].device) \in files
    /\ files' = files \ {screenshotPath(tasks[t].url, tasks[t].device)}
    /\ Update(t, SeqFinally(tasks[t]))
    /\ MainUnchanged

\* an awaited operation of the try block threw: catch (log only), then finally
SeqStepThrows(t) ==
    /\ SeqCurrent(t)
    /\ \E step \in SeqTrySteps :
          /\ At(t, step)
          /\ Update(t, SeqCatch(tasks[t], step))
    /\ UNCHANGED files /\ MainUnchanged

\* await context.close() returned: the next pair starts, or after the last pair
\* `await browser.close()` is called
SeqContextCloseReturns(t) ==
    /\ SeqCurrent(t)
    /\ At(t, "close")
    /\ LET done == [tasks EXCEPT ![t].pc = "settled", ![t].promise = "resolved"]
       IN  IF t < U * D
           THEN /\ tasks' = Append(done, SeqPairAt(t + 1))
                /\ UNCHANGED <<phase, browserCloseCalls>>
           ELSE /\ tasks' = done
                /\ phase' = "closingBrowser"
                /\ browserCloseCalls' = browserCloseCalls + 1
    /\ UNCHANGED <<config, exitCode, browser, launchCalls, files, results,
                   successCount, failureCount, summaryPrinted>>

\* await context.close() threw inside finally: takeScreenshots rejects, exit code 1
SeqContextCloseThrows(t) ==
    /\ SeqCurrent(t)
    /\ At(t, "close")
    /\ Update(t, [tasks[t] EXCEPT !.pc = "aborted"])
    /\ phase' = "done"
    /\ exitCode' = Exited(1)
    /\ UNCHANGED <<config, browser, launchCalls, browserCloseCalls, files, results,
                   successCount, failureCount, summaryPrinted>>

SeqPairStep(t) ==
    \/ SeqCurrent(t) /\ NewContextReturns(t)
    \/ SeqCurrent(t) /\ NewPageReturns(t)
    \/ SeqCreateThrows(t)
    \/ SeqCurrent(t) /\ GotoReturns(t)
    \/ SeqCurrent(t) /\ WaitForSelectorReturns(t)
    \/ SeqCurrent(t) /\ ClickReturns(t)
    \/ SeqCurrent(t) /\ ConsentThrows(t)
    \/ SeqCurrent(t) /\ EvaluateScrollTick(t)
    \/ SeqCurrent(t) /\ EvaluateScrollReturns(t)
    \/ SeqCurrent(t) /\ EvaluateTopReturns(t)
    \/ SeqCurrent(t) /\ WaitForLoadStateReturns(t)
    \/ SeqCurrent(t) /\ ScreenshotReturns(t)
    \/ SeqCurrent(t) /\ SharpReturns(t)
    \/ SeqUnlinkReturns(t)
    \/ SeqStepThrows(t)
    \/ SeqContextCloseReturns(t)
    \/ SeqContextCloseThrows(t)

NextSequential ==
    \/ Validate
    \/ SeqLaunchReturns
    \/ LaunchThrows
    \/ \E t \in 1..MaxTasks + 1 : SeqPairStep(t)
    \/ BrowserCloseReturns
    \/ BrowserCloseThrows

SpecSequential == Init /\ [][NextSequential]_vars

\* C19: in the sequential variant a failure of one pair, at any of its steps including
\* context and page creation, does not abort the batch: when the run is over after a
\* successful launch, every pair of the cross product has been attempted, in order, and
\* browser.close has been called.
C19_SequentialIsolation ==
    (phase = "done" /\ browser # "null") =>
       /\ Len(tasks) = U * D
       /\ \A k \in 1..Len(tasks) :
             <<tasks[k].url, tasks[k].device>>
                = <<Urls[((k - 1) \div D) + 1], Devices[((k - 1) % D) + 1]>>
       /\ browserCloseCalls = 1

\* C20: browser.close is called only in a step at which every task's promise has
\* settled; a promise settles only in the step that completes the close of the task's
\* context (or when no context was ever created); so at the call no task is
\* mid-pipeline and no created context is left without a completed close, and after
\* the call no task takes any further step.
C20_BrowserClosedAfterAllTasks ==
    [][ /\ browserCloseCalls' > browserCloseCalls =>
              \A t \in TaskIds :
                 /\ tasks[t].promise # "pending"
                 /\ tasks[t].pc = "settled"
                 /\ tasks[t].context => tasks[t].closeCalls = 1
        /\ \A t \in TaskIds :
              (tasks[t].promise = "pending" /\ tasks'[t].promise # "pending") =>
                 /\ tasks'[t].pc = "settled"
                 /\ tasks[t].context => (tasks[t].pc = "close" /\ tasks[t].closeCalls = 1)
        /\ browserCloseCalls >= 1 => tasks' = tasks
      ]_vars

C20_Witness ==
    /\ phase = "closingBrowser"
    /\ browserCloseCalls = 1
    /\ Len(tasks) = 2
    /\ \A t \in TaskIds : tasks[t].context /\ tasks[t].closeCalls = 1
    /\ ReturnedSuccess(1) /\ tasks[1].promise = "resolved"
    /\ tasks[2].promise = "rejected"

\* C21: a task that failed at newContext, newPage, goto or the second quiescence wait
\* has changed no file in any of its steps (it created neither a .png nor a .webp);
\* a task whose screenshot succeeded and whose re-encode (sharp) then failed has its
\* .png in the run directory when the run is over.
C21_FailureFrame ==
    [][ \A t \in TaskIds :
           /\ (tasks'[t] # tasks[t]
                 /\ tasks'[t].threw \in {"newContext", "newPage", "goto", "waitForLoadState"}) =>
                 files' = files
           /\ (phase' = "done" /\ tasks'[t].threw = "sharp") =>
                 screenshotPath(tasks'[t].url, tasks'[t].device) \in files'
      ]_vars

====
